---- MODULE Spec2Model ----
(***************************************************************************)
(* Ninedraft (a3_files/app.py): the game-rule handlers of the Ninedraft    *)
(* application class: mining and drop dispatch, crafting recipe lookup,    *)
(* and the player/item collision handler.                                  *)
(*                                                                         *)
(* Food, health and effect strengths are counted in half points, so that   *)
(* the steps 0.5 and 2.5 of mine_block are the integers 1 and 5.           *)
(* The support modules of the game (block, item, grid, player, world,      *)
(* crafting) are not part of app.py; what the handlers need of them is     *)
(* modelled from the design document and marked so in the model map.       *)
(***************************************************************************)
EXTENDS Integers, Sequences, FiniteSets, TLC

VARIABLES
    hot_bar,          \* Ninedraft._hot_bar: slot -> <<>> or <<stack>>
    selected,         \* SelectableGrid selection: <<>> or <<slot>>
    inventory,        \* Ninedraft._inventory: slot -> <<>> or <<stack>>
    food,             \* Player food, in half points
    health,           \* Player health, in half points
    blocks,           \* World: cell -> the blocks whose body lies in that cell
    items,            \* World: the DroppedItem bodies, in order of insertion
    target_position,  \* Ninedraft._target_position, a pixel <<x, y>>
    target_in_range,  \* Ninedraft._target_in_range
    next_uid,         \* identity of the next Block object constructed
    clicks,           \* number of clicks that reached a block or placed an item
    raised,           \* the exception the last click handler let propagate
    ret,              \* what the last collision callback returned
    call,             \* what the last click handler did
    mine_log,         \* uids of the blocks mine_block found mined, in order
    crafting_window,  \* Ninedraft._crafting_window: << >> or <<craft_type>>
    grid,             \* the working grid of the crafting window
    crafted,          \* what the crafter answered for that grid: << >> or <<stack>>
    player,           \* identity of the Player object in the world
    destroyed,        \* whether the master window has been destroyed
    pending,          \* number of calls of step the master has scheduled
    asked,            \* whether the last tick asked for a restart
    mobs,             \* World: the mobs, each with its step counter
    left_view         \* whether <Leave> is the last pointer event of the view

vars == <<hot_bar, selected, inventory, food, health, blocks, items,
          target_position, target_in_range, next_uid, clicks, raised,
          ret, call, mine_log, crafting_window, grid, crafted,
          player, destroyed, pending, asked, mobs, left_view>>

(* The variables of the application's life: its player object, its window  *)
(* and its clock.                                                           *)
running == <<player, destroyed, pending, asked, mobs>>

(* What no handler of the game rules touches: the application's life and   *)
(* the pointer's stay over the view.                                       *)
lifecycle == <<running, left_view>>

-----------------------------------------------------------------------------
(* Mobs (mob.py is modelled from the design document; Sheep and Bee from   *)
(* their code)                                                             *)

SHEEP_PERIOD == 100
BEE_PERIOD == 20

(* A mob: its class, Mob._steps, and what its last step did: whether the   *)
(* override called set_velocity and whether Mob.step ran.                  *)
Mob(cls) == [cls |-> cls, steps |-> 0, pushed |-> FALSE, stepped |-> FALSE]

(* Mob.step(time_delta, game_data): the base step counts the step.         *)
mob_step(mob) == [mob EXCEPT !.steps = @ + 1, !.stepped = TRUE]

Period(cls) == IF cls = "Sheep" THEN SHEEP_PERIOD ELSE BEE_PERIOD

step_without_base(mob) == [mob EXCEPT !.pushed = (mob.steps % Period(mob.cls) = 0),
                                      !.stepped = FALSE, !.steps = @ + 1]

(* Sheep.step / Bee.step: set_velocity when the counter is a multiple of   *)
(* the period, then super().step.                                          *)
step_mob(mob) ==
    mob_step([mob EXCEPT !.pushed = (mob.steps % Period(mob.cls) = 0), !.stepped = FALSE])

(* The mobs load_simple_world adds.                                        *)
starting_mobs == << Mob("Sheep"), Mob("Bee") >>

(* The application as __init__ leaves it when it calls step (line 889).    *)
Started ==
    /\ player = 1
    /\ destroyed = FALSE
    /\ pending = 1
    /\ asked = FALSE
    /\ mobs = starting_mobs
    /\ left_view = FALSE

-----------------------------------------------------------------------------
(* Program constants                                                       *)

BLOCK_SIZE == 32
HOTBAR_COLUMNS == 10
INVENTORY_ROWS == 3
INVENTORY_COLUMNS == 10
STONE_PICKAXE_DURABILITY == 132
DIAMOND_PICKAXE_DURABILITY == 1562
WOOD_TOOL_DURABILITY == 60
APPLE_STRENGTH == 4
MINE_FOOD_COST == 1
MINE_HEALTH_COST == 5
HONEY_DROPS == 5
JITTER_MAX == 2
DROP_MARGIN == 5
DROP_PITCH == 11
DROP_TILING == 3

(* Bounds of the model                                                     *)

WorldCols == 2
WorldRows == 1
MaxClicks == 3
LuckSteps == 4

-----------------------------------------------------------------------------
(* Items (item.py is modelled from the design document; the classes of     *)
(* app.py from their code)                                                 *)

NoItem == [id |-> "", cls |-> "", tool_type |-> "", durability |-> 0,
           max_durability |-> 0, strength |-> 0, places |-> << >>]

HandItem(id) == [NoItem EXCEPT !.id = id, !.cls = "HandItem", !.tool_type = "hand"]

SimpleItem(id) == [NoItem EXCEPT !.id = id, !.cls = "SimpleItem"]

BlockItem(id) == [NoItem EXCEPT !.id = id, !.cls = "BlockItem"]

BaseItem(id) == [NoItem EXCEPT !.id = id, !.cls = "Item"]

FoodItem(id, strength) ==
    [NoItem EXCEPT !.id = id, !.cls = "FoodItem", !.strength = strength]

ToolItem(id, tool_type, durability) ==
    [NoItem EXCEPT !.id = id, !.cls = "ToolItem", !.tool_type = tool_type,
                   !.durability = durability, !.max_durability = durability]

BowArrowItem(id, tool_type) ==
    [NoItem EXCEPT !.id = id, !.cls = "BowArrowItem", !.tool_type = tool_type]

BeeMob == [NoItem EXCEPT !.id = "_draw_bee", !.cls = "Bee"]

MATERIAL_TOOL_TYPES == {"axe", "shovel", "hoe", "pickaxe", "sword"}

TOOL_DURABILITIES == {"wood", "stone", "iron", "golden", "diamond"}

Found(v) == [ok |-> TRUE, item |-> v, error |-> "none"]

NoItemDefined == [ok |-> FALSE, item |-> NoItem, error |-> "KeyError: No item defined"]

SingleItemIds == {"dirt", "wood", "stone", "crafting_table", "wool", "bed",
                  "honey", "furnace", "diamond", "hive"}

create_item(item_id) ==
    IF Len(item_id) = 2 THEN
        IF item_id[1] \in MATERIAL_TOOL_TYPES /\ item_id[2] \in TOOL_DURABILITIES THEN
            CASE item_id = <<"pickaxe", "stone">> ->
                     Found(ToolItem("stone_pickaxe", "pickaxe", STONE_PICKAXE_DURABILITY))
              [] item_id = <<"pickaxe", "diamond">> ->
                     Found(ToolItem("diamond_pickaxe", "pickaxe", DIAMOND_PICKAXE_DURABILITY))
              [] item_id = <<"pickaxe", "wood">> ->
                     Found(ToolItem("wood_pickaxe", "pickaxe", WOOD_TOOL_DURABILITY))
              [] item_id = <<"axe", "wood">> ->
                     Found(ToolItem("wood_axe", "axe", WOOD_TOOL_DURABILITY))
              [] item_id = <<"shovel", "wood">> ->
                     Found(ToolItem("wood_shovel", "shovel", WOOD_TOOL_DURABILITY))
              [] item_id = <<"sword", "wood">> ->
                     Found(ToolItem("wood_sword", "sword", WOOD_TOOL_DURABILITY))
              [] item_id = <<"axe", "stone">> ->
                     Found(ToolItem("stone_axe", "axe", STONE_PICKAXE_DURABILITY))
              [] item_id = <<"shovel", "stone">> ->
                     Found(ToolItem("stone_shovel", "shovel", STONE_PICKAXE_DURABILITY))
              [] item_id = <<"sword", "stone">> ->
                     Found(ToolItem("stone_sword", "sword", STONE_PICKAXE_DURABILITY))
              [] OTHER -> NoItemDefined
        ELSE NoItemDefined
    ELSE IF Len(item_id) = 1 THEN
        LET item_type == item_id[1] IN
        CASE item_type = "hands" -> Found(HandItem("hands"))
          [] item_type = "bow" -> Found(SimpleItem("bow"))
          [] item_type = "arrow" -> Found(SimpleItem("arrow"))
          [] item_type = "apple" -> Found(FoodItem("apple", APPLE_STRENGTH))
          [] item_type = "stick" -> Found(SimpleItem("stick"))
          [] item_type \in SingleItemIds -> Found(BlockItem(item_type))
          [] item_type = "swarming_bee" -> Found(BeeMob)
          [] OTHER -> NoItemDefined
    ELSE NoItemDefined

can_attack_at_zero(item) ==
    CASE item.cls = "ToolItem" -> item.durability >= 0
      [] item.cls = "HandItem" -> TRUE
      [] OTHER -> FALSE

(* Item.can_attack of each class: a ToolItem attacks while its durability  *)
(* is positive (it returns None otherwise), a BowArrowItem returns None.   *)
can_attack(item) ==
    CASE item.cls = "ToolItem" -> item.durability > 0
      [] item.cls = "HandItem" -> TRUE
      [] OTHER -> FALSE

attack_inverted(item, successful) ==
    IF item.cls = "ToolItem" /\ successful
    THEN [item EXCEPT !.durability = item.durability - 1]
    ELSE item

(* Item.attack(successful): the item after the attack.                     *)
attack(item, successful) ==
    IF item.cls = "ToolItem" /\ ~successful
    THEN [item EXCEPT !.durability = item.durability - 1]
    ELSE item

(* An effect tuple: its length, its kind (element 0) and its payload, a     *)
(* name for "crafting" and a strength for "food" / "health".               *)
Effect(len, kind, name, strength) ==
    [len |-> len, kind |-> kind, name |-> name, strength |-> strength]

NoEffect == Effect(0, "", "", 0)

(* A drop (category, payload): the payload is an id tuple for the          *)
(* categories "item" and "block" and an effect tuple for "effect".         *)
Drop(category, types) == [category |-> category, types |-> types, effect |-> NoEffect]

EffectDrop(effect) == [category |-> "effect", types |-> << >>, effect |-> effect]

(* Item.place(): the list of drops; ToolItem.place and BowArrowItem.place  *)
(* return None, here the empty list (both are falsy to the callers).       *)
place(item) ==
    CASE item.cls = "FoodItem" -> << EffectDrop(Effect(2, "food", "", item.strength)) >>
      [] item.cls = "BlockItem" -> << Drop("block", <<item.id>>) >>
      [] item.cls \in {"ToolItem", "BowArrowItem"} -> << >>
      [] OTHER -> item.places

Stack(item, quantity) == [item |-> item, quantity |-> quantity]

-----------------------------------------------------------------------------
(* Blocks (block.py is modelled from the design document; the block        *)
(* classes of app.py from their code)                                      *)

(* A break table maps a tool type to (required effort, effective).  The    *)
(* effort is counted in attacks.                                           *)
Entry(effort, effective) == [effort |-> effort, effective |-> effective]

BREAK_TABLES ==
    [dirt  |-> [hand |-> Entry(2, TRUE), shovel |-> Entry(1, TRUE)],
     wood  |-> [hand |-> Entry(2, TRUE), axe |-> Entry(1, TRUE)],
     stone |-> [hand |-> Entry(3, FALSE), pickaxe |-> Entry(2, TRUE)]]

(* The class-level tables of LeafBlock and TrickCandleFlameBlock.          *)
LEAF_BREAK_TABLE == [hand |-> Entry(1, FALSE), shears |-> Entry(1, TRUE)]

MAYHEM_BREAK_TABLE == [hand |-> Entry(1, TRUE)]

BreakTable(name) ==
    CASE name = "leaf" -> LEAF_BREAK_TABLE
      [] name = "mayhem" -> MAYHEM_BREAK_TABLE
      [] OTHER -> BREAK_TABLES[name]

NextMayhem(i) == IF i = "0" THEN "1" ELSE "0"

NoBlock == [uid |-> 0, id |-> "", cls |-> "", table |-> "", effort |-> 0,
            mined |-> FALSE, index |-> "", drops |-> << >>]

NewBlock(cls, id, table) ==
    [NoBlock EXCEPT !.cls = cls, !.id = id, !.table = table]

Built(b) == [ok |-> TRUE, block |-> b, error |-> "none"]

NoBlockDefined == [ok |-> FALSE, block |-> NoBlock, error |-> "KeyError: No block defined"]

create_block(block_id) ==
    IF Len(block_id) = 0 THEN
        [ok |-> FALSE, block |-> NoBlock, error |-> "IndexError"]
    ELSE IF Len(block_id) = 1 THEN
        LET id == block_id[1] IN
        CASE id = "leaf" -> Built(NewBlock("LeafBlock", "leaf", "leaf"))
          [] id \in DOMAIN BREAK_TABLES -> Built(NewBlock("ResourceBlock", id, id))
          [] id = "crafting_table" -> Built(NewBlock("CraftingTableBlock", id, "wood"))
          [] id = "diamond" -> Built(NewBlock("DiamondBlock", id, "stone"))
          [] id = "wool" -> Built(NewBlock("WoolBlock", id, "wood"))
          [] id = "bed" -> Built(NewBlock("BedBlock", id, "wood"))
          [] id = "honey" -> Built(NewBlock("HoneyBlock", "honey", "wood"))
          [] id = "furnace" -> Built(NewBlock("Furnace", id, "stone"))
          [] id = "hive" -> Built(NewBlock("HiveBlock", id, "wood"))
          [] OTHER -> NoBlockDefined
    ELSE IF block_id[1] = "mayhem" THEN
        Built([NewBlock("TrickCandleFlameBlock", "mayhem", "mayhem")
                   EXCEPT !.index = block_id[2]])
    ELSE NoBlockDefined

(* The ids create_block builds a block for.                                *)
BlockIds ==
    {<<"leaf">>, <<"dirt">>, <<"wood">>, <<"stone">>, <<"crafting_table">>,
     <<"diamond">>, <<"wool">>, <<"bed">>, <<"honey">>, <<"furnace">>,
     <<"hive">>, <<"mayhem", "0">>}

Repeat(d, n) == [k \in 1..n |-> d]

(* Block.get_drops(luck, correct_item_used) of each class.  luck is a      *)
(* sample of [0, 1) in steps of 1 / LuckSteps.  A result of None is the    *)
(* empty list.                                                             *)
get_drops(block, luck, correct_item_used) ==
    CASE block.cls \in {"CraftingTableBlock", "DiamondBlock", "WoolBlock",
                        "BedBlock", "Furnace", "ResourceBlock"} ->
             IF correct_item_used THEN Repeat(Drop("item", <<block.id>>), 1) ELSE << >>
      [] block.cls = "HoneyBlock" ->
             IF correct_item_used
             THEN Repeat(Drop("item", <<block.id>>), HONEY_DROPS) ELSE << >>
      [] block.cls = "HiveBlock" ->
             IF correct_item_used
             THEN Repeat(Drop("item", <<"bee">>), HONEY_DROPS) ELSE << >>
      [] block.cls = "LeafBlock" ->
             IF 10 * luck < 3 * LuckSteps
             THEN << Drop("item", <<"apple">>) >> ELSE << >>
      [] block.cls = "TrickCandleFlameBlock" ->
             << Drop("block", <<"mayhem", NextMayhem(block.index)>>) >>
      [] OTHER -> block.drops

(* Block.mine(effective_item, active_item, luck): the block after the      *)
(* attack, whether the tool type is the effective one for the block, and   *)
(* whether this attack completed the break.                                *)
mine(block, effective_item, active_item, luck) ==
    LET table == BreakTable(block.table)
        tool == effective_item.tool_type
    IN  IF tool \notin DOMAIN table
        THEN [block |-> block, suitable |-> FALSE, successful |-> FALSE]
        ELSE LET effort == block.effort + 1
                 done == effort >= table[tool].effort
             IN  [block |-> [block EXCEPT !.effort = effort, !.mined = done],
                  suitable |-> table[tool].effective,
                  successful |-> done]

is_mined(block) == block.mined

-----------------------------------------------------------------------------
(* World (world.py is modelled from the design document)                   *)

Cells == (0 .. WorldCols - 1) \X (0 .. WorldRows - 1)

LastCell == <<WorldCols - 1, WorldRows - 1>>

xy_to_grid(x, y) == <<x \div BLOCK_SIZE, y \div BLOCK_SIZE>>

grid_to_xy_centre(cell) ==
    <<cell[1] * BLOCK_SIZE + BLOCK_SIZE \div 2, cell[2] * BLOCK_SIZE + BLOCK_SIZE \div 2>>

(* World.get_block(x, y): the block at a pixel, << >> when there is none.  *)
get_block(world, x, y) ==
    LET cell == xy_to_grid(x, y)
    IN  IF cell \in Cells /\ world[cell] # << >> THEN <<world[cell][1]>> ELSE << >>

(* World.add_block(block, x, y): the block takes the cell of the pixel.    *)
add_block(world, block, x, y) ==
    LET cell == xy_to_grid(x, y)
    IN  IF cell \in Cells
        THEN [world EXCEPT ![cell] = Append(world[cell], block)]
        ELSE world

(* World.remove_item(block): the body of that Block object leaves.         *)
remove_block(world, uid) ==
    [c \in Cells |-> SelectSeq(world[c], LAMBDA b : b.uid # uid)]

(* World.add_item(physical, x, y): bodies are kept by the cell they are    *)
(* spawned in.                                                             *)
add_item(bodies, item, x, y) ==
    Append(bodies, [item |-> item, cell |-> xy_to_grid(x, y)])

-----------------------------------------------------------------------------
(* Player (player.py is modelled from the design document: food and        *)
(* health are bounded by 0 and their maximum)                              *)

MAX_FOOD == 40
MAX_HEALTH == 40

Clamp(v, hi) == IF v < 0 THEN 0 ELSE IF v > hi THEN hi ELSE v

change_food(f, change) == Clamp(f + change, MAX_FOOD)

change_health(h, change) == Clamp(h + change, MAX_HEALTH)

-----------------------------------------------------------------------------
(* Ninedraft: the hot bar and what the player holds                        *)

Slots == 0 .. HOTBAR_COLUMNS - 1

hands == HandItem("hands")

(* SelectableGrid.get_selected_value(): the selected stack, << >> if none. *)
get_selected_value(bar, sel) == IF sel = << >> THEN << >> ELSE bar[sel[1]]

(* Ninedraft.get_holding(): <<active_item, effective_item>>.               *)
get_holding(bar, sel) ==
    LET active_stack == get_selected_value(bar, sel)
        active_item == IF active_stack # << >> THEN active_stack[1].item ELSE hands
        effective_item == IF can_attack(active_item) THEN active_item ELSE hands
    IN  <<active_item, effective_item>>

(* effective_item.attack(successful) acts on the item object itself: on    *)
(* the tool of the selected stack when that tool is the effective item,    *)
(* on the hands otherwise (HandItem.attack changes nothing).               *)
attack_holding(bar, sel, successful) ==
    LET active_stack == get_selected_value(bar, sel)
    IN  IF active_stack # << >> /\ can_attack(active_stack[1].item)
        THEN [bar EXCEPT ![sel[1]] =
                 << [active_stack[1] EXCEPT !.item = attack(@, successful)] >>]
        ELSE bar

charge_at_zero(f, h) ==
    IF f >= 0
    THEN [food |-> change_food(f, -MINE_FOOD_COST), health |-> h]
    ELSE [food |-> f, health |-> change_health(h, -MINE_HEALTH_COST)]

(* The food / health charge of a completed break.                          *)
charge(f, h) ==
    IF f > 0
    THEN [food |-> change_food(f, -MINE_FOOD_COST), health |-> h]
    ELSE [food |-> f, health |-> change_health(h, -MINE_HEALTH_COST)]

left_in_world(world, block) == world

(* self._world.remove_item(block) of mine_block.                           *)
removed_from_world(world, block) == remove_block(world, block.uid)

-----------------------------------------------------------------------------
(* Ninedraft.mine_block: the drop loop                                     *)

Jitter == 0 .. JITTER_MAX

drop_y_untiled(c0, i, j) ==
    c0 - BLOCK_SIZE \div 2 + DROP_MARGIN + (i \div DROP_TILING) * DROP_PITCH + j

(* The coordinate of the item drop of index i along one axis, from the     *)
(* centre coordinate c0 of the mined block and the jitter draw j.          *)
drop_x(c0, i, j) == c0 - BLOCK_SIZE \div 2 + DROP_MARGIN + (i % DROP_TILING) * DROP_PITCH + j

drop_y(c0, i, j) ==
    c0 - BLOCK_SIZE \div 2 + DROP_MARGIN + ((i \div DROP_TILING) % DROP_TILING) * DROP_PITCH + j

dispatch_drop_skipping(d, i, drop, x0, y0, jx, jy) ==
    CASE drop.category = "item" ->
             LET made == create_item(drop.types)
                 x == drop_x(x0, i, jx)
                 y == drop_y(y0, i, jy)
             IN  IF ~made.ok THEN [d EXCEPT !.raised = made.error]
                 ELSE [d EXCEPT !.items = add_item(d.items, made.item, x, y),
                                !.x = x, !.y = y]
      [] drop.category = "block" ->
             LET made == create_block(drop.types)
             IN  IF ~made.ok THEN [d EXCEPT !.raised = made.error]
                 ELSE [d EXCEPT !.blocks = add_block(d.blocks,
                                               [made.block EXCEPT !.uid = d.next_uid],
                                               d.x, d.y),
                                !.next_uid = d.next_uid + 1,
                                !.placed = Append(d.placed, <<d.x, d.y>>)]
      [] OTHER -> d

(* One iteration of the loop: d holds the world, the local variables x     *)
(* and y of mine_block and the exception raised so far.                    *)
dispatch_drop(d, i, drop, x0, y0, jx, jy) ==
    CASE drop.category = "item" ->
             LET made == create_item(drop.types)
                 x == drop_x(x0, i, jx)
                 y == drop_y(y0, i, jy)
             IN  IF ~made.ok THEN [d EXCEPT !.raised = made.error]
                 ELSE [d EXCEPT !.items = add_item(d.items, made.item, x, y),
                                !.x = x, !.y = y]
      [] drop.category = "block" ->
             LET made == create_block(drop.types)
             IN  IF ~made.ok THEN [d EXCEPT !.raised = made.error]
                 ELSE [d EXCEPT !.blocks = add_block(d.blocks,
                                               [made.block EXCEPT !.uid = d.next_uid],
                                               d.x, d.y),
                                !.next_uid = d.next_uid + 1,
                                !.placed = Append(d.placed, <<d.x, d.y>>)]
      [] OTHER -> [d EXCEPT !.raised = "KeyError: Unknown drop category"]

(* Every result the loop can have from index i on, over the jitter draws,  *)
(* from the results ds of the iterations before i; an exception ends the   *)
(* loop.                                                                   *)
RECURSIVE dispatch_drops(_, _, _, _, _)
dispatch_drops(ds, i, drops, x0, y0) ==
    IF i >= Len(drops) THEN ds
    ELSE dispatch_drops(
             { IF d.raised # "none" THEN d
               ELSE dispatch_drop(d, i, drops[i + 1], x0, y0, j[1], j[2]) :
               d \in ds, j \in Jitter \X Jitter },
             i + 1, drops, x0, y0)

NoCall == [op |-> "", uid |-> 0, cell |-> <<0, 0>>, effective |-> NoItem, successful |-> FALSE,
           suitable |-> FALSE, mined |-> FALSE, drops |-> << >>, placed |-> << >>,
           x |-> 0, y |-> 0, slot |-> << >>]

(* Ninedraft.mine_block(block, x, y); luck is the sample random.random().  *)
mine_block(block, x, y, luck) ==
    LET holding == get_holding(hot_bar, selected)
        active_item == holding[1]
        effective_item == holding[2]
        res == mine(block, effective_item, active_item, luck)
        held == [NoCall EXCEPT !.op = "mine_block", !.uid = block.uid, !.cell = xy_to_grid(x, y),
                               !.effective = effective_item,
                               !.successful = res.successful,
                               !.suitable = res.suitable,
                               !.mined = is_mined(res.block),
                               !.x = x, !.y = y]
    IN  /\ hot_bar' = attack_holding(hot_bar, selected, res.successful)
        /\ IF ~is_mined(res.block)
           THEN /\ blocks' = [c \in Cells |->
                                [k \in 1 .. Len(blocks[c]) |->
                                    IF blocks[c][k].uid = block.uid
                                    THEN res.block ELSE blocks[c][k]]]
                /\ call' = held
                /\ raised' = "none"
                /\ UNCHANGED <<food, health, items, next_uid, mine_log>>
           ELSE LET paid == charge(food, health)
                    removed == removed_from_world(blocks, block)
                    drops == get_drops(res.block, luck, res.suitable)
                    centre == grid_to_xy_centre(xy_to_grid(x, y))
                    start == [blocks |-> removed, items |-> items, x |-> x, y |-> y,
                              raised |-> "none", next_uid |-> next_uid, placed |-> << >>]
                IN  /\ food' = paid.food
                    /\ health' = paid.health
                    /\ mine_log' = Append(mine_log, block.uid)
                    /\ \E d \in dispatch_drops({start}, 0, drops, centre[1], centre[2]) :
                          /\ blocks' = d.blocks
                          /\ items' = d.items
                          /\ next_uid' = d.next_uid
                          /\ raised' = d.raised
                          /\ call' = [held EXCEPT !.drops = drops, !.placed = d.placed,
                                                  !.x = d.x, !.y = d.y]

-----------------------------------------------------------------------------
(* Ninedraft: the event handlers                                           *)

Luck == 0 .. LuckSteps - 1

(* The cursor positions tried: the last pixel of every cell.               *)
CursorPixels ==
    { <<c[1] * BLOCK_SIZE + BLOCK_SIZE - 1, c[2] * BLOCK_SIZE + BLOCK_SIZE - 1>> : c \in Cells }

(* Keys "1" .. "0": SelectableGrid.select((0, i)).                         *)
select(i) ==
    /\ UNCHANGED lifecycle
    /\ selected' = <<i>>
    /\ UNCHANGED <<hot_bar, inventory, food, health, blocks, items, target_position,
                   target_in_range, next_uid, clicks, raised, ret, call, mine_log,
                   crafting_window, grid, crafted>>

(* <Motion>: check_target() compares the distance from the player to the   *)
(* cursor with the attack range; the player's position is physical state   *)
(* outside the model, so either answer is possible.                        *)
_mouse_move(pos, in_range) ==
    /\ UNCHANGED running
    /\ left_view' = FALSE
    /\ target_position' = pos
    /\ target_in_range' = in_range
    /\ UNCHANGED <<hot_bar, selected, inventory, food, health, blocks, items,
                   next_uid, clicks, raised, ret, call, mine_log, crafting_window,
                   grid, crafted>>

(* <Leave>                                                                 *)
_mouse_leave ==
    /\ UNCHANGED running
    /\ left_view' = TRUE
    /\ target_in_range' = FALSE
    /\ UNCHANGED <<hot_bar, selected, inventory, food, health, blocks, items,
                   target_position, next_uid, clicks, raised, ret, call, mine_log,
                   crafting_window, grid, crafted>>

(* <Button-1>                                                              *)
_left_click(luck) ==
    /\ UNCHANGED lifecycle
    /\ LET x == target_position[1]
           y == target_position[2]
           block == get_block(blocks, x, y)
       IN  IF target_in_range /\ block # << >>
           THEN /\ clicks < MaxClicks
                /\ clicks' = clicks + 1
                /\ mine_block(block[1], x, y, luck)
           ELSE /\ call' = [NoCall EXCEPT !.op = "_left_click"]
                /\ raised' = "none"
                /\ UNCHANGED <<hot_bar, food, health, blocks, items, next_uid,
                               mine_log, clicks>>
    /\ UNCHANGED <<selected, inventory, target_position, target_in_range, ret,
                   crafting_window, grid, crafted>>

(* The direction keys: a / Left, d / Right, s / Down.                      *)
Directions == { <<0 - 1, 0>>, <<1, 0>>, <<0, 1>> }

(* _move(dx, dy): check_target() first, which assigns _target_in_range     *)
(* from the player's position and the last _target_position whether or     *)
(* not the pointer has left the view; then the player's velocity, which    *)
(* is physical state outside the model like the position, is changed.      *)
_move(dx, dy, in_range) ==
    /\ UNCHANGED lifecycle
    /\ target_in_range' = in_range
    /\ UNCHANGED <<hot_bar, selected, inventory, food, health, blocks, items,
                   target_position, next_uid, clicks, raised, ret, call, mine_log,
                   crafting_window, grid, crafted>>

(* _jump(): check_target() as well, then the velocity of the jump.         *)
_jump(in_range) ==
    /\ UNCHANGED lifecycle
    /\ target_in_range' = in_range
    /\ UNCHANGED <<hot_bar, selected, inventory, food, health, blocks, items,
                   target_position, next_uid, clicks, raised, ret, call, mine_log,
                   crafting_window, grid, crafted>>

-----------------------------------------------------------------------------
(* Crafting (the recipe tables of _trigger_crafting; GridCrafter is        *)
(* modelled from the design document).  An empty cell, None, is "".        *)

Recipe(pattern, result) == [pattern |-> pattern, result |-> result]

Made(item_id, quantity) == Stack(create_item(item_id).item, quantity)

CRAFTING_RECIPES_2x2_repeated ==
    << Recipe(<< <<"wood", "wood">>,
                 <<"wood", "wood">> >>, Made(<<"stick">>, 4)),
       Recipe(<< <<"wood", "wood">>,
                 <<"wood", "wood">> >>, Made(<<"crafting_table">>, 1)),
       Recipe(<< <<"dirt", "dirt">>,
                 <<"dirt", "dirt">> >>, Made(<<"wood">>, 1)),
       Recipe(<< <<"stone", "stone">>,
                 <<"stone", "stone">> >>, Made(<<"diamond">>, 1)),
       Recipe(<< <<"apple", "apple">>,
                 <<"apple", "apple">> >>, Made(<<"honey">>, 1)) >>

CRAFTING_RECIPES_2x2 ==
    << Recipe(<< <<"", "wood">>,
                 <<"", "wood">> >>, Made(<<"stick">>, 4)),
       Recipe(<< <<"wood", "wood">>,
                 <<"wood", "wood">> >>, Made(<<"crafting_table">>, 1)),
       Recipe(<< <<"dirt", "dirt">>,
                 <<"dirt", "dirt">> >>, Made(<<"wood">>, 1)),
       Recipe(<< <<"stone", "stone">>,
                 <<"stone", "stone">> >>, Made(<<"diamond">>, 1)),
       Recipe(<< <<"apple", "apple">>,
                 <<"apple", "apple">> >>, Made(<<"honey">>, 1)) >>

CRAFTING_RECIPES_3x3 ==
    << Recipe(<< <<"", "", "">>,
                 <<"", "wood", "">>,
                 <<"", "wood", "">> >>, Made(<<"stick">>, 16)),
       Recipe(<< <<"wood", "wood", "wood">>,
                 <<"", "stick", "">>,
                 <<"", "stick", "">> >>, Made(<<"pickaxe", "wood">>, 1)),
       Recipe(<< <<"stone", "stone", "stone">>,
                 <<"", "stick", "">>,
                 <<"", "stick", "">> >>, Made(<<"pickaxe", "stone">>, 1)),
       Recipe(<< <<"diamond", "diamond", "diamond">>,
                 <<"", "stick", "">>,
                 <<"", "stick", "">> >>, Made(<<"pickaxe", "diamond">>, 1)),
       Recipe(<< <<"wood", "wood", "">>,
                 <<"wood", "stick", "">>,
                 <<"", "stick", "">> >>, Made(<<"axe", "wood">>, 1)),
       Recipe(<< <<"stone", "stone", "">>,
                 <<"wood", "stick", "">>,
                 <<"", "stick", "">> >>, Made(<<"axe", "stone">>, 1)),
       Recipe(<< <<"", "wood", "">>,
                 <<"", "stick", "">>,
                 <<"", "stick", "">> >>, Made(<<"shovel", "wood">>, 1)),
       Recipe(<< <<"", "stone", "">>,
                 <<"", "stick", "">>,
                 <<"", "stick", "">> >>, Made(<<"shovel", "stone">>, 1)),
       Recipe(<< <<"", "wood", "">>,
                 <<"", "wood", "">>,
                 <<"", "stick", "">> >>, Made(<<"sword", "wood">>, 1)),
       Recipe(<< <<"", "stone", "">>,
                 <<"", "stone", "">>,
                 <<"", "stick", "">> >>, Made(<<"sword", "stone">>, 1)),
       Recipe(<< <<"", "", "">>,
                 <<"wool", "wool", "wool">>,
                 <<"wood", "wood", "wood">> >>, Made(<<"bed">>, 1)),
       Recipe(<< <<"stone", "stone", "stone">>,
                 <<"stone", "", "stone">>,
                 <<"stone", "stone", "stone">> >>, Made(<<"furnace">>, 1)) >>

(* The crafter _trigger_crafting builds for a craft type: its table and    *)
(* its size.                                                               *)
GridCrafter(craft_type) ==
    IF craft_type = "basic"
    THEN [recipes |-> CRAFTING_RECIPES_2x2, rows |-> 2, columns |-> 2]
    ELSE [recipes |-> CRAFTING_RECIPES_3x3, rows |-> 3, columns |-> 3]

(* GridCrafter.craft(grid): the result of the first recipe whose pattern   *)
(* equals the grid cell for cell, << >> when there is none.                *)
craft(crafter, g) ==
    LET hits == { k \in 1 .. Len(crafter.recipes) : crafter.recipes[k].pattern = g }
    IN  IF hits = {} THEN << >>
        ELSE << crafter.recipes[CHOOSE k \in hits : \A m \in hits : k <= m].result >>

-----------------------------------------------------------------------------
(* Ninedraft.run_effect and Ninedraft._right_click                         *)

run_effect_lenient(effect, f, h, w) ==
    IF effect.kind = "crafting"
    THEN [food |-> f, health |-> h, window |-> <<effect.name>>, raised |-> "none"]
    ELSE IF effect.kind \in {"food", "health"}
    THEN IF f < MAX_FOOD
         THEN [food |-> change_food(f, effect.strength), health |-> h,
               window |-> w, raised |-> "none"]
         ELSE [food |-> f, health |-> change_health(h, effect.strength),
               window |-> w, raised |-> "none"]
    ELSE [food |-> f, health |-> h, window |-> w, raised |-> "none"]

run_effect_by_kind(effect, f, h, w) ==
    IF effect.len = 2 /\ effect.kind = "crafting"
    THEN [food |-> f, health |-> h, window |-> <<effect.name>>, raised |-> "none"]
    ELSE IF effect.len = 2 /\ effect.kind \in {"food", "health"}
    THEN IF effect.kind = "food"
         THEN [food |-> change_food(f, effect.strength), health |-> h,
               window |-> w, raised |-> "none"]
         ELSE [food |-> f, health |-> change_health(h, effect.strength),
               window |-> w, raised |-> "none"]
    ELSE [food |-> f, health |-> h, window |-> w,
          raised |-> "KeyError: No effect defined"]

(* run_effect(effect) on the player p = [food, health] and the crafting    *)
(* window w: what they become and the exception raised.                    *)
run_effect(effect, f, h, w) ==
    IF effect.len = 2 /\ effect.kind = "crafting"
    THEN [food |-> f, health |-> h, window |-> <<effect.name>>, raised |-> "none"]
    ELSE IF effect.len = 2 /\ effect.kind \in {"food", "health"}
    THEN IF f < MAX_FOOD
         THEN [food |-> change_food(f, effect.strength), health |-> h,
               window |-> w, raised |-> "none"]
         ELSE [food |-> f, health |-> change_health(h, effect.strength),
               window |-> w, raised |-> "none"]
    ELSE [food |-> f, health |-> h, window |-> w,
          raised |-> "KeyError: No effect defined"]

(* Block.use() of each class: an effect tuple, or None (length 0).         *)
use(block) ==
    IF block.cls = "CraftingTableBlock"
    THEN Effect(2, "crafting", "crafting_table", 0)
    ELSE NoEffect

subtract_one_sparing(bar, slot) ==
    IF bar[slot][1].quantity = 1 THEN bar
    ELSE [bar EXCEPT ![slot] = << [bar[slot][1] EXCEPT !.quantity = @ - 1] >>]

subtract_one_keeping(bar, slot) ==
    [bar EXCEPT ![slot] = << [bar[slot][1] EXCEPT !.quantity = @ - 1] >>]

(* Stack.subtract(1) on the stack of a slot, and the slot emptied when     *)
(* the quantity reaches 0.                                                 *)
subtract_one(bar, slot) ==
    LET stack == [bar[slot][1] EXCEPT !.quantity = @ - 1]
    IN  [bar EXCEPT ![slot] = IF stack.quantity = 0 THEN << >> ELSE <<stack>>]

(* <Button-3> at the pixel pos (event.x, event.y): the thing used is the   *)
(* one at _target_position, the block placed goes to pos.  hit says        *)
(* whether the cursor is on the body of a dropped item lying in the cell   *)
(* (its place inside the cell is physical state outside the model).        *)
_right_click(hit, pos) ==
    /\ UNCHANGED lifecycle
    /\ UNCHANGED <<selected, inventory, items, target_position, target_in_range, ret,
                   mine_log, grid, crafted>>
    /\ LET x == target_position[1]
           y == target_position[2]
           block == get_block(blocks, x, y)
           lying == \E k \in 1 .. Len(items) : items[k].cell = xy_to_grid(x, y)
           done == [NoCall EXCEPT !.op = "_right_click", !.x = x, !.y = y,
                                  !.cell = xy_to_grid(x, y), !.slot = selected]
       IN  IF block # << >> \/ (hit /\ lying)
           THEN LET effect == IF block # << >> THEN use(block[1]) ELSE NoEffect
                    after == run_effect(effect, food, health, crafting_window)
                IN  /\ call' = [done EXCEPT !.op = "use"]
                    /\ IF effect.len = 0
                       THEN /\ raised' = "none"
                            /\ UNCHANGED <<food, health, crafting_window>>
                       ELSE /\ food' = after.food
                            /\ health' = after.health
                            /\ crafting_window' = after.window
                            /\ raised' = after.raised
                    /\ UNCHANGED <<hot_bar, blocks, next_uid, clicks>>
           ELSE IF selected = << >> \/ hot_bar[selected[1]] = << >>
           THEN /\ call' = done
                /\ raised' = "none"
                /\ UNCHANGED <<hot_bar, blocks, next_uid, clicks, food, health,
                               crafting_window>>
           ELSE LET stack == hot_bar[selected[1]][1]
                    drops == place(stack.item)
                    drop == drops[1]
                    made == IF drop.types = << >>
                            THEN [ok |-> FALSE, block |-> NoBlock, error |-> "IndexError"]
                            ELSE create_block(<<drop.types[1]>>)
                    after == run_effect(drop.effect, food, health, crafting_window)
                IN  /\ clicks < MaxClicks
                    /\ clicks' = clicks + 1
                    /\ hot_bar' = subtract_one(hot_bar, selected[1])
                    /\ call' = [done EXCEPT !.drops = drops]
                    /\ CASE drops = << >> ->
                                /\ raised' = "none"
                                /\ UNCHANGED <<blocks, next_uid, food, health, crafting_window>>
                         [] Len(drops) > 1 ->
                                /\ raised' = "NotImplementedError: more than 1 thing"
                                /\ UNCHANGED <<blocks, next_uid, food, health, crafting_window>>
                         [] Len(drops) = 1 /\ drop.category = "block" ->
                                IF get_block(blocks, pos[1], pos[2]) # << >>
                                THEN /\ raised' = "NotImplementedError: cell is full"
                                     /\ UNCHANGED <<blocks, next_uid, food, health,
                                                    crafting_window>>
                                ELSE IF ~made.ok
                                THEN /\ raised' = made.error
                                     /\ UNCHANGED <<blocks, next_uid, food, health,
                                                    crafting_window>>
                                ELSE /\ blocks' = add_block(blocks,
                                                      [made.block EXCEPT !.uid = next_uid],
                                                      pos[1], pos[2])
                                     /\ next_uid' = next_uid + 1
                                     /\ raised' = "none"
                                     /\ UNCHANGED <<food, health, crafting_window>>
                         [] Len(drops) = 1 /\ drop.category = "effect" ->
                                /\ food' = after.food
                                /\ health' = after.health
                                /\ crafting_window' = after.window
                                /\ raised' = after.raised
                                /\ UNCHANGED <<blocks, next_uid>>
                         [] OTHER ->
                                /\ raised' = "KeyError: Unknown drop category"
                                /\ UNCHANGED <<blocks, next_uid, food, health, crafting_window>>

-----------------------------------------------------------------------------
(* The state after Ninedraft.__init__                                      *)

StartItem(item_id) == create_item(item_id).item

starting_hotbar ==
    << Stack(StartItem(<<"dirt">>), 20),
       Stack(StartItem(<<"apple">>), 20),
       Stack(StartItem(<<"pickaxe", "stone">>), 1),
       Stack(StartItem(<<"diamond">>), 20),
       Stack(StartItem(<<"wool">>), 20),
       Stack(StartItem(<<"furnace">>), 1),
       Stack(StartItem(<<"honey">>), 1),
       Stack(StartItem(<<"hive">>), 1),
       Stack(StartItem(<<"bow">>), 1),
       Stack(StartItem(<<"arrow">>), 20) >>

InvSlots == (0 .. INVENTORY_ROWS - 1) \X (0 .. INVENTORY_COLUMNS - 1)

starting_inventory ==
    [p \in InvSlots |->
        CASE p = <<1, 5>> -> << Stack(BaseItem("dirt"), 10) >>
          [] p = <<0, 2>> -> << Stack(BaseItem("wood"), 10) >>
          [] OTHER -> << >>]

InitApp ==
    /\ Started
    /\ hot_bar = [i \in Slots |-> << starting_hotbar[i + 1] >>]
    /\ selected = <<0>>
    /\ inventory = starting_inventory
    /\ food = MAX_FOOD
    /\ health = MAX_HEALTH
    /\ items = << >>
    /\ target_position = <<0, 0>>
    /\ target_in_range = FALSE
    /\ clicks = 0
    /\ raised = "none"
    /\ ret = "None"
    /\ call = NoCall
    /\ mine_log = << >>
    /\ crafting_window = << >>
    /\ grid = << >>
    /\ crafted = << >>

(* Mining: the world holds one block that create_block builds, the player  *)
(* has mined and eaten before (food and health at the values around the    *)
(* crossover) and the pickaxe of the hot bar is new, nearly worn or worn.  *)
PlayerLevels ==
    { <<MAX_FOOD, MAX_HEALTH>>, <<MINE_FOOD_COST, MAX_HEALTH>>, <<0, APPLE_STRENGTH>> }

DurabilityLevels == {1, STONE_PICKAXE_DURABILITY}

WornBar(durability) ==
    [i \in Slots |->
        IF starting_hotbar[i + 1].item.cls = "ToolItem"
        THEN << [starting_hotbar[i + 1] EXCEPT !.item.durability = durability] >>
        ELSE << starting_hotbar[i + 1] >>]

OneBlock(cell, block) == [c \in Cells |-> IF c = cell THEN <<block>> ELSE << >>]

InitMine ==
    /\ Started
    /\ \E durability \in DurabilityLevels : hot_bar = WornBar(durability)
    /\ selected = <<0>>
    /\ inventory = starting_inventory
    /\ \E p \in PlayerLevels : food = p[1] /\ health = p[2]
    /\ \E id \in BlockIds :
          blocks = OneBlock(<<0, 0>>, [create_block(id).block EXCEPT !.uid = 1])
    /\ next_uid = 2
    /\ items = << >>
    /\ target_position = <<0, 0>>
    /\ target_in_range = FALSE
    /\ clicks = 0
    /\ raised = "none"
    /\ ret = "None"
    /\ call = NoCall
    /\ mine_log = << >>
    /\ crafting_window = << >>
    /\ grid = << >>
    /\ crafted = << >>

(* The number keys pressed: one slot for each class of item the starting   *)
(* hot bar holds (BlockItem, FoodItem, ToolItem, SimpleItem).              *)
SelectKeys == {i \in Slots : starting_hotbar[i + 1].item.id \in {"dirt", "apple", "stone_pickaxe", "bow"}}

NextMine ==
    \/ \E i \in SelectKeys : select(i)
    \/ \E pos \in CursorPixels, in_range \in BOOLEAN : _mouse_move(pos, in_range)
    \/ _mouse_leave
    \/ \E luck \in Luck : _left_click(luck)

SpecMine == InitMine /\ [][NextMine]_vars

(* The pointer and the keys: the same worlds, with the cursor moving over  *)
(* the view and leaving it while the movement and jump keys are pressed.   *)
NextTarget ==
    \/ \E pos \in CursorPixels, in_range \in BOOLEAN : _mouse_move(pos, in_range)
    \/ _mouse_leave
    \/ \E d \in Directions, in_range \in BOOLEAN : _move(d[1], d[2], in_range)
    \/ \E in_range \in BOOLEAN : _jump(in_range)
    \/ \E luck \in Luck : _left_click(luck)

SpecTarget == InitMine /\ [][NextTarget]_vars

-----------------------------------------------------------------------------
(* Drop dispatch over any drop list: a Block subclass whose get_drops      *)
(* returns the list and an Item subclass whose place returns it, for the   *)
(* lists of at most MaxDrops entries over one drop of each category the    *)
(* handlers know and one they do not.                                      *)

MaxDrops == 2

SampleDrops ==
    { Drop("item", <<"stone">>), Drop("block", <<"dirt">>),
      EffectDrop(Effect(2, "food", "", APPLE_STRENGTH)), Drop("loot", <<"stone">>) }

DropLists == UNION { [1 .. n -> SampleDrops] : n \in 0 .. MaxDrops }

AnyBlock(drops) == [NewBlock("Block", "any", "mayhem") EXCEPT !.drops = drops, !.uid = 1]

AnyItem(drops) == [NoItem EXCEPT !.id = "any", !.cls = "Item", !.places = drops]

AnyBar(drops) ==
    [i \in Slots |-> IF i = 0 THEN << Stack(AnyItem(drops), MaxClicks) >>
                     ELSE << starting_hotbar[i + 1] >>]

InitDispatch ==
    /\ Started
    /\ \E drops \in DropLists :
          /\ hot_bar = AnyBar(drops)
          /\ blocks = OneBlock(<<0, 0>>, AnyBlock(drops))
    /\ selected = <<0>>
    /\ inventory = starting_inventory
    /\ food = MAX_FOOD - MINE_FOOD_COST
    /\ health = MAX_HEALTH
    /\ next_uid = 2
    /\ items = << >>
    /\ target_position = <<0, 0>>
    /\ target_in_range = FALSE
    /\ clicks = 0
    /\ raised = "none"
    /\ ret = "None"
    /\ call = NoCall
    /\ mine_log = << >>
    /\ crafting_window = << >>
    /\ grid = << >>
    /\ crafted = << >>

NextDispatch ==
    \/ \E pos \in CursorPixels, in_range \in BOOLEAN : _mouse_move(pos, in_range)
    \/ \E luck \in Luck : _left_click(luck)
    \/ \E hit \in BOOLEAN : _right_click(hit, target_position)

SpecDispatch == InitDispatch /\ [][NextDispatch]_vars

-----------------------------------------------------------------------------
(* Grid.add_item and the player / item collision callback (grid.py is      *)
(* modelled from the design document)                                      *)

MAX_STACK == 64

(* Item.is_stackable(): the tools of app.py are not.                       *)
is_stackable(item) == item.cls \notin {"ToolItem", "BowArrowItem"}

(* The order in which a grid lists its cells: row by row.                  *)
HotbarOrder == [n \in 1 .. HOTBAR_COLUMNS |-> n - 1]

InventoryOrder ==
    [n \in 1 .. INVENTORY_ROWS * INVENTORY_COLUMNS |->
        <<(n - 1) \div INVENTORY_COLUMNS, (n - 1) % INVENTORY_COLUMNS>>]

(* Grid.add_item(item): the item joins the first stack of its id that has  *)
(* room, or else takes the first empty cell; the grid refuses it when      *)
(* there is neither.                                                       *)
add_item_to(g, item, order) ==
    LET room == { n \in DOMAIN order : /\ g[order[n]] # << >>
                                       /\ is_stackable(item)
                                       /\ g[order[n]][1].item.id = item.id
                                       /\ g[order[n]][1].quantity < MAX_STACK }
        empty == { n \in DOMAIN order : g[order[n]] = << >> }
        First(S) == order[CHOOSE n \in S : \A m \in S : n <= m]
    IN  IF room # {}
        THEN [ok |-> TRUE,
              grid |-> [g EXCEPT ![First(room)] = << [@[1] EXCEPT !.quantity = @ + 1] >>]]
        ELSE IF empty # {}
        THEN [ok |-> TRUE, grid |-> [g EXCEPT ![First(empty)] = << Stack(item, 1) >>]]
        ELSE [ok |-> FALSE, grid |-> g]

pick_up_inventory_first(bar, inv, item) ==
    LET in_inv == add_item_to(inv, item, InventoryOrder)
        in_bar == add_item_to(bar, item, HotbarOrder)
    IN  IF in_inv.ok
        THEN [hot_bar |-> bar, inventory |-> in_inv.grid, taken |-> TRUE, ret |-> "False"]
        ELSE IF in_bar.ok
        THEN [hot_bar |-> in_bar.grid, inventory |-> inv, taken |-> TRUE, ret |-> "False"]
        ELSE [hot_bar |-> bar, inventory |-> inv, taken |-> FALSE, ret |-> "True"]

(* The body of _handle_player_collide_item for the item of the dropped     *)
(* body: the containers after it, whether the body is taken out of the     *)
(* world, and the value returned.                                          *)
pick_up(bar, inv, item) ==
    LET in_bar == add_item_to(bar, item, HotbarOrder)
        in_inv == add_item_to(inv, item, InventoryOrder)
    IN  IF in_bar.ok
        THEN [hot_bar |-> in_bar.grid, inventory |-> inv, taken |-> TRUE, ret |-> "False"]
        ELSE IF in_inv.ok
        THEN [hot_bar |-> bar, inventory |-> in_inv.grid, taken |-> TRUE, ret |-> "False"]
        ELSE [hot_bar |-> bar, inventory |-> inv, taken |-> FALSE, ret |-> "True"]

(* World.remove_item(dropped_item): the k-th body leaves.                  *)
remove_item(bodies, k) == [n \in 1 .. Len(bodies) - 1 |-> IF n < k THEN bodies[n] ELSE bodies[n + 1]]

(* The collision callback of ("player", "item") for the k-th body.         *)
_handle_player_collide_item(k) ==
    LET got == pick_up(hot_bar, inventory, items[k].item)
    IN  /\ hot_bar' = got.hot_bar
        /\ UNCHANGED lifecycle
        /\ inventory' = got.inventory
        /\ items' = IF got.taken THEN remove_item(items, k) ELSE items
        /\ ret' = got.ret
        /\ call' = [NoCall EXCEPT !.op = "_handle_player_collide_item",
                                  !.effective = items[k].item, !.uid = k]
        /\ UNCHANGED <<selected, food, health, blocks, target_position, target_in_range,
                       next_uid, clicks, raised, mine_log, crafting_window, grid, crafted>>

(* Pickup: two dropped items lie in the world; the hot bar is the starting *)
(* one with its dirt stack at some fill or its first slot empty; the       *)
(* inventory is the starting one, or is full of full stacks but for one    *)
(* cell that is empty or holds a dirt stack.                               *)
DirtBar(slot) == [i \in Slots |-> IF i = 0 THEN slot ELSE << starting_hotbar[i + 1] >>]

DirtFills == { << >>, << Stack(BlockItem("dirt"), 20) >>,
               << Stack(BlockItem("dirt"), MAX_STACK - 1) >>,
               << Stack(BlockItem("dirt"), MAX_STACK) >> }

FullInventory(hole, slot) ==
    [p \in InvSlots |-> IF p = hole THEN slot ELSE << Stack(BlockItem("wood"), MAX_STACK) >>]

PickupInventories ==
    {starting_inventory} \cup
    { FullInventory(hole, slot) : hole \in InvSlots, slot \in DirtFills \ {<< Stack(BlockItem("dirt"), 20) >>} }

DroppedIds == {"dirt", "stone"}

InitPickup ==
    /\ Started
    /\ \E slot \in DirtFills : hot_bar = DirtBar(slot)
    /\ inventory \in PickupInventories
    /\ \E a, b \in DroppedIds :
          items = << [item |-> BlockItem(a), cell |-> <<0, 0>>],
                     [item |-> BlockItem(b), cell |-> <<0, 0>>] >>
    /\ selected = <<0>>
    /\ food = MAX_FOOD
    /\ health = MAX_HEALTH
    /\ blocks = [c \in Cells |-> << >>]
    /\ next_uid = 1
    /\ target_position = <<0, 0>>
    /\ target_in_range = FALSE
    /\ clicks = 0
    /\ raised = "none"
    /\ ret = "None"
    /\ call = NoCall
    /\ mine_log = << >>
    /\ crafting_window = << >>
    /\ grid = << >>
    /\ crafted = << >>

NextPickup == \E k \in 1 .. Len(items) : _handle_player_collide_item(k)

SpecPickup == InitPickup /\ [][NextPickup]_vars

-----------------------------------------------------------------------------
(* Ninedraft: the tick and the File menu                                   *)

MaxPlayers == 3
MaxSteps == 201

CellIndex(c) == c[1] * WorldRows + c[2]

(* The cells load_simple_world fills with ground: the model's world is a   *)
(* window on the grid at the surface, its last row ground and sky above.   *)
Ground == { c \in Cells : c[2] = WorldRows - 1 }

(* load_simple_world(world) on the emptied world: every cell of the        *)
(* ground gets a block that random.choices draws from dirt and stone; the  *)
(* worlds it can leave, with block identities from uid0 on.                *)
load_simple_world(uid0) ==
    { [c \in Cells |->
          IF c \in Ground
          THEN << [create_block(<<kinds[c]>>).block EXCEPT !.uid = uid0 + CellIndex(c)] >>
          ELSE << >>] :
        kinds \in [Ground -> {"dirt", "stone"}] }

(* Player.is_dead()                                                        *)
is_dead(h) == h <= 0

restart_keeping_bar(answer, moved) ==
    IF answer
    THEN /\ blocks' \in load_simple_world(next_uid)
         /\ next_uid' = next_uid + Cardinality(Cells)
         /\ items' = << >>
         /\ mobs' = starting_mobs
         /\ player' = player + 1
         /\ food' = MAX_FOOD
         /\ health' = MAX_HEALTH
         /\ selected' = <<0>>
         /\ inventory' = starting_inventory
         /\ UNCHANGED hot_bar
    ELSE /\ mobs' = moved
         /\ UNCHANGED <<blocks, next_uid, items, player, food, health, selected,
                        hot_bar, inventory>>

restart_unasked(answer, moved) ==
    /\ blocks' \in load_simple_world(next_uid)
    /\ next_uid' = next_uid + Cardinality(Cells)
    /\ items' = << >>
    /\ mobs' = starting_mobs
    /\ player' = player + 1
    /\ food' = MAX_FOOD
    /\ health' = MAX_HEALTH
    /\ selected' = <<0>>
    /\ hot_bar' = [i \in Slots |-> << starting_hotbar[i + 1] >>]
    /\ inventory' = starting_inventory

(* The body of restart() for the answer of askyesno; moved is the mobs as  *)
(* the caller leaves them.  A confirmed restart removes every thing,       *)
(* loads the world, makes a new Player and refills both grids.             *)
restart_body(answer, moved) ==
    IF answer
    THEN /\ blocks' \in load_simple_world(next_uid)
         /\ next_uid' = next_uid + Cardinality(Cells)
         /\ items' = << >>
         /\ mobs' = starting_mobs
         /\ player' = player + 1
         /\ food' = MAX_FOOD
         /\ health' = MAX_HEALTH
         /\ selected' = <<0>>
         /\ hot_bar' = [i \in Slots |-> << starting_hotbar[i + 1] >>]
         /\ inventory' = starting_inventory
    ELSE /\ mobs' = moved
         /\ UNCHANGED <<blocks, next_uid, items, player, food, health, selected,
                        hot_bar, inventory>>

(* File > New Game                                                         *)
restart(answer) ==
    /\ ~destroyed
    /\ answer => player < MaxPlayers
    /\ restart_body(answer, mobs)
    /\ call' = [NoCall EXCEPT !.op = "restart", !.successful = answer]
    /\ UNCHANGED <<target_position, target_in_range, clicks, raised, ret, mine_log,
                   crafting_window, grid, crafted, destroyed, pending, asked, left_view>>

(* Whether exit() destroys the master for the answer of askyesno.          *)
exit_body(answer) == answer

(* File > Exit and WM_DELETE_WINDOW; the calls the master had scheduled    *)
(* go with it.                                                             *)
exit(answer) ==
    /\ ~destroyed
    /\ destroyed' = exit_body(answer)
    /\ pending' = IF exit_body(answer) THEN 0 ELSE pending
    /\ call' = [NoCall EXCEPT !.op = "exit", !.successful = answer]
    /\ UNCHANGED <<hot_bar, selected, inventory, food, health, blocks, items,
                   target_position, target_in_range, next_uid, clicks, raised, ret,
                   mine_log, crafting_window, grid, crafted, player, asked, mobs, left_view>>

reschedule_twice(n) == n + 1

(* The calls of step the master holds once a tick that was one of n has    *)
(* run: the tick is spent and after(15, self.step) adds one.               *)
reschedule(n) == n - 1 + 1

(* step(): the world steps its mobs, the view is redrawn, a dead player    *)
(* brings up restart(), and the next tick is scheduled.  The collision     *)
(* callbacks the physics fires are the handlers of their own.              *)
step(answer) ==
    /\ ~destroyed
    /\ pending >= 1
    /\ \A k \in DOMAIN mobs : mobs[k].steps < MaxSteps
    /\ LET moved == [k \in DOMAIN mobs |-> step_mob(mobs[k])]
       IN  IF is_dead(health)
           THEN /\ answer => player < MaxPlayers
                /\ restart_body(answer, moved)
                /\ asked' = TRUE
           ELSE /\ ~answer
                /\ restart_body(FALSE, moved)
                /\ asked' = FALSE
    /\ pending' = reschedule(pending)
    /\ call' = [NoCall EXCEPT !.op = "step", !.successful = answer]
    /\ UNCHANGED <<target_position, target_in_range, clicks, raised, ret, mine_log,
                   crafting_window, grid, crafted, destroyed, left_view>>

(* The application in play: the starting grids or a used hot bar and       *)
(* inventory, a player at some food and health, dropped items lying in     *)
(* the world.                                                              *)
LifeLevels == { <<MAX_FOOD, MAX_HEALTH>>, <<0, MINE_HEALTH_COST>>, <<0, 0>> }

InitLife ==
    /\ Started
    /\ \E slot \in {<< >>, << Stack(BlockItem("dirt"), 20) >>} : hot_bar = DirtBar(slot)
    /\ inventory \in {starting_inventory,
                      [p \in InvSlots |-> << Stack(BlockItem("wood"), MAX_STACK) >>]}
    /\ selected \in {<<0>>, <<2>>}
    /\ \E p \in LifeLevels : food = p[1] /\ health = p[2]
    /\ blocks = OneBlock(<<0, 0>>, [create_block(<<"hive">>).block EXCEPT !.uid = 1])
    /\ next_uid = 2
    /\ items \in {<< >>, << [item |-> BlockItem("stone"), cell |-> <<0, 0>>] >>}
    /\ target_position = <<0, 0>>
    /\ target_in_range = FALSE
    /\ clicks = 0
    /\ raised = "none"
    /\ ret = "None"
    /\ call = NoCall
    /\ mine_log = << >>
    /\ crafting_window = << >>
    /\ grid = << >>
    /\ crafted = << >>

NextLife ==
    \/ \E answer \in BOOLEAN : restart(answer)
    \/ \E answer \in BOOLEAN : exit(answer)
    \/ \E answer \in BOOLEAN : step(answer)

SpecLife == InitLife /\ [][NextLife]_vars

(* The mobs alone: the world as load_simple_world leaves it, ticking.      *)
InitMob ==
    /\ InitApp
    /\ blocks \in load_simple_world(1)
    /\ next_uid = 1 + Cardinality(Cells)

NextMob == step(FALSE)

SpecMob == InitMob /\ [][NextMob]_vars

-----------------------------------------------------------------------------
(* Placing and picking up: the starting hot bar, whose honey and pickaxe   *)
(* are stacks of one, or one whose first stack is a single item of a drop  *)
(* category _right_click refuses; an empty world but for two dropped       *)
(* items; the cursor rests on a cell, and the player places what is        *)
(* selected and walks into the items.                                      *)

PlaceKeys == { i \in Slots : starting_hotbar[i + 1].item.id \in {"dirt", "stone_pickaxe", "honey"} }

FirstStacks == { << Stack(BlockItem("dirt"), 20) >>,
                 << Stack(AnyItem(<< Drop("loot", <<"stone">>) >>), 1) >>,
                 << Stack(AnyItem(<< Drop("block", <<"dirt">>), Drop("block", <<"dirt">>) >>), 1) >> }

InitPlace ==
    /\ Started
    /\ \E slot \in FirstStacks : hot_bar = DirtBar(slot)
    /\ selected = <<0>>
    /\ inventory = starting_inventory
    /\ food = MAX_FOOD
    /\ health = MAX_HEALTH
    /\ blocks = [c \in Cells |-> << >>]
    /\ next_uid = 1
    /\ \E a \in DroppedIds :
          items = << [item |-> BlockItem(a), cell |-> LastCell],
                     [item |-> BlockItem("honey"), cell |-> LastCell] >>
    /\ target_position \in CursorPixels
    /\ target_in_range = TRUE
    /\ clicks = 0
    /\ raised = "none"
    /\ ret = "None"
    /\ call = NoCall
    /\ mine_log = << >>
    /\ crafting_window = << >>
    /\ grid = << >>
    /\ crafted = << >>

NextPlace ==
    \/ \E i \in PlaceKeys : select(i)
    \/ \E hit \in BOOLEAN : _right_click(hit, target_position)
    \/ \E k \in 1 .. Len(items) : _handle_player_collide_item(k)

SpecPlace == InitPlace /\ [][NextPlace]_vars

(* Right clicks anywhere on the view: the world holds a crafting table in  *)
(* the first cell and a dropped item in the last, the cursor rests on a    *)
(* cell, and the button is pressed at a pixel of any cell with a stack of  *)
(* each class of item selected (a block item, food, a tool, the bow, or    *)
(* the item of the first slot whose drops _right_click refuses).           *)
ClickKeys == { i \in Slots : starting_hotbar[i + 1].item.id \in {"dirt", "apple", "stone_pickaxe", "bow"} }

ClickLevels == { <<MAX_FOOD, MAX_HEALTH>>, <<0, APPLE_STRENGTH>> }

InitClick ==
    /\ Started
    /\ \E slot \in FirstStacks : hot_bar = DirtBar(slot)
    /\ selected = <<0>>
    /\ inventory = starting_inventory
    /\ \E p \in ClickLevels : food = p[1] /\ health = p[2]
    /\ blocks = OneBlock(<<0, 0>>, [create_block(<<"crafting_table">>).block EXCEPT !.uid = 1])
    /\ next_uid = 2
    /\ items = << [item |-> BlockItem("stone"), cell |-> LastCell] >>
    /\ target_position \in CursorPixels
    /\ target_in_range = TRUE
    /\ clicks = 0
    /\ raised = "none"
    /\ ret = "None"
    /\ call = NoCall
    /\ mine_log = << >>
    /\ crafting_window = << >>
    /\ grid = << >>
    /\ crafted = << >>

NextClick ==
    \/ \E i \in ClickKeys : select(i)
    \/ \E hit \in BOOLEAN, pos \in CursorPixels : _right_click(hit, pos)

SpecClick == InitClick /\ [][NextClick]_vars

-----------------------------------------------------------------------------
(* The place of an item drop: the block under the cursor has been mined    *)
(* and the loop of mine_block is at the item entry of index i, for the     *)
(* indexes up to MaxIndex and every pair of jitter draws.                  *)

MaxIndex == 10

(* Lines 1029-1030 for the entry of index i of the block mined at the      *)
(* target: the coordinates handed to World.add_item.                       *)
place_drop(i, jx, jy) ==
    LET cell == xy_to_grid(target_position[1], target_position[2])
        centre == grid_to_xy_centre(cell)
    IN  /\ call' = [NoCall EXCEPT !.op = "place_drop", !.uid = i, !.cell = cell,
                                  !.x = drop_x(centre[1], i, jx),
                                  !.y = drop_y(centre[2], i, jy),
                                  !.placed = << <<jx, jy>> >>]
        /\ UNCHANGED <<hot_bar, selected, inventory, food, health, blocks, items,
                       target_position, target_in_range, next_uid, clicks, raised, ret,
                       mine_log, crafting_window, grid, crafted>>
        /\ UNCHANGED lifecycle

InitDrop ==
    /\ InitApp
    /\ blocks = [c \in Cells |-> << >>]
    /\ next_uid = 1

NextDrop ==
    \/ \E pos \in CursorPixels, in_range \in BOOLEAN : _mouse_move(pos, in_range)
    \/ \E i \in 0 .. MaxIndex, jx \in Jitter, jy \in Jitter : place_drop(i, jx, jy)

SpecDrop == InitDrop /\ [][NextDrop]_vars

-----------------------------------------------------------------------------
(* Effects: the selected stack is of an item whose place() returns one     *)
(* ("effect", effect) drop, for effect tuples of length 1 to 3 over the    *)
(* kinds run_effect knows and one it does not; a crafting table stands in  *)
(* the last cell, to be used.                                              *)

EffectKinds == {"crafting", "food", "health", "poison"}

EffectStrengths == {1, APPLE_STRENGTH}

EffectLengths == 1 .. 3

SampleEffects ==
    { Effect(len, kind, IF kind = "crafting" THEN "basic" ELSE "",
             IF kind = "crafting" THEN 0 ELSE strength) :
        len \in EffectLengths, kind \in EffectKinds, strength \in EffectStrengths }

EffectLevels == { <<MAX_FOOD, MAX_HEALTH>>, <<MAX_FOOD - 1, MAX_HEALTH>>,
                  <<MAX_FOOD, MAX_HEALTH - 10>>, <<20, 20>>, <<0, 6>> }

InitEffect ==
    /\ Started
    /\ \E e \in SampleEffects : hot_bar = AnyBar(<< EffectDrop(e) >>)
    /\ \E p \in EffectLevels : food = p[1] /\ health = p[2]
    /\ blocks = OneBlock(LastCell, [create_block(<<"crafting_table">>).block EXCEPT !.uid = 1])
    /\ selected = <<0>>
    /\ inventory = starting_inventory
    /\ next_uid = 2
    /\ items = << >>
    /\ target_position = <<0, 0>>
    /\ target_in_range = FALSE
    /\ clicks = 0
    /\ raised = "none"
    /\ ret = "None"
    /\ call = NoCall
    /\ mine_log = << >>
    /\ crafting_window = << >>
    /\ grid = << >>
    /\ crafted = << >>

NextEffect ==
    \/ \E pos \in CursorPixels, in_range \in BOOLEAN : _mouse_move(pos, in_range)
    \/ \E hit \in BOOLEAN : _right_click(hit, target_position)

SpecEffect == InitEffect /\ [][NextEffect]_vars

-----------------------------------------------------------------------------
(* The factories: a block is mined whose one drop names an id tuple, for   *)
(* registered ids and for the empty tuple, unknown ids, unhandled lengths  *)
(* and a (tool, material) pair without a branch.                           *)

SampleIds ==
    { << >>, <<"dirt">>, <<"leaf">>, <<"hive">>, <<"apple">>, <<"bee">>, <<"swarming_bee">>,
      <<"granite">>, <<"mayhem">>, <<"pickaxe", "stone">>, <<"hoe", "wood">>,
      <<"mayhem", "0">>, <<"dirt", "stone">>, <<"mayhem", "0", "1">>,
      <<"pickaxe", "stone", "wood">> }

InitFactory ==
    /\ Started
    /\ \E category \in {"item", "block"}, ids \in SampleIds :
          blocks = OneBlock(<<0, 0>>, AnyBlock(<< Drop(category, ids) >>))
    /\ hot_bar = [i \in Slots |-> << starting_hotbar[i + 1] >>]
    /\ selected = <<0>>
    /\ inventory = starting_inventory
    /\ food = MAX_FOOD
    /\ health = MAX_HEALTH
    /\ next_uid = 2
    /\ items = << >>
    /\ target_position = <<0, 0>>
    /\ target_in_range = FALSE
    /\ clicks = 0
    /\ raised = "none"
    /\ ret = "None"
    /\ call = NoCall
    /\ mine_log = << >>
    /\ crafting_window = << >>
    /\ grid = << >>
    /\ crafted = << >>

NextFactory ==
    \/ \E i \in SelectKeys : select(i)
    \/ \E pos \in CursorPixels, in_range \in BOOLEAN : _mouse_move(pos, in_range)
    \/ \E luck \in Luck : _left_click(luck)

SpecFactory == InitFactory /\ [][NextFactory]_vars

-----------------------------------------------------------------------------
(* Crafting: the player has laid out a registered pattern in the window    *)
(* of a crafter, changes at most MaxEdits cells of it and asks the         *)
(* crafter for the result.                                                 *)

MaxEdits == 1

CraftIds == {"", "wood", "stick", "stone", "diamond", "wool", "dirt", "apple"}

(* A cell of the working grid is set to an item id or emptied.             *)
put_cell(r, c, id) ==
    /\ UNCHANGED lifecycle
    /\ clicks < MaxEdits
    /\ grid[r][c] # id
    /\ clicks' = clicks + 1
    /\ grid' = [grid EXCEPT ![r][c] = id]
    /\ crafted' = << >>
    /\ UNCHANGED <<hot_bar, selected, inventory, food, health, blocks, items,
                   target_position, target_in_range, next_uid, raised, ret, call,
                   mine_log, crafting_window>>

(* The crafting window asks its crafter for the grid's result.             *)
craft_grid ==
    /\ UNCHANGED lifecycle
    /\ crafted' = << craft(GridCrafter(crafting_window[1]), grid) >>
    /\ UNCHANGED <<hot_bar, selected, inventory, food, health, blocks, items,
                   target_position, target_in_range, next_uid, clicks, raised, ret,
                   call, mine_log, crafting_window, grid>>

InitCraft ==
    /\ Started
    /\ \E craft_type \in {"basic", "crafting_table"} :
          /\ crafting_window = <<craft_type>>
          /\ \E k \in 1 .. Len(GridCrafter(craft_type).recipes) :
                grid = GridCrafter(craft_type).recipes[k].pattern
    /\ crafted = << >>
    /\ hot_bar = [i \in Slots |-> << starting_hotbar[i + 1] >>]
    /\ selected = <<0>>
    /\ inventory = starting_inventory
    /\ food = MAX_FOOD
    /\ health = MAX_HEALTH
    /\ blocks = [c \in Cells |-> << >>]
    /\ next_uid = 1
    /\ items = << >>
    /\ target_position = <<0, 0>>
    /\ target_in_range = FALSE
    /\ clicks = 0
    /\ raised = "none"
    /\ ret = "None"
    /\ call = NoCall
    /\ mine_log = << >>

NextCraft ==
    \/ \E r \in 1 .. Len(grid) : \E c \in 1 .. Len(grid[r]) : \E id \in CraftIds :
          put_cell(r, c, id)
    \/ craft_grid

SpecCraft == InitCraft /\ [][NextCraft]_vars

-----------------------------------------------------------------------------
(* Properties of mining                                                    *)

ToolSlots == { i \in Slots : hot_bar[i] # << >> /\ hot_bar[i][1].item.cls = "ToolItem" }

Durability(i) == hot_bar[i][1].item.durability

(* A step of mine_block: the only step that counts a click here.           *)
MineStep == clicks' = clicks + 1 /\ call'.op = "mine_block"

(* C1: whatever is selected, mined and drawn as luck, the durability of    *)
(* every tool stays within 0 .. max_durability and no step raises it.      *)
C1_DurabilityBounded ==
    /\ [](\A i \in ToolSlots :
             /\ Durability(i) >= 0
             /\ Durability(i) <= hot_bar[i][1].item.max_durability)
    /\ [][\A i \in ToolSlots : Durability(i)' <= Durability(i)]_vars

(* A worn-out pickaxe is selected and mine_block attacked with the hands.  *)
C1_Witness ==
    /\ call.op = "mine_block"
    /\ call.effective.cls = "HandItem"
    /\ selected # << >> /\ selected[1] \in ToolSlots
    /\ Durability(selected[1]) = 0

(* C2: a mine_block call with a usable tool costs that tool exactly one    *)
(* point of durability when the attack did not complete the break and      *)
(* nothing when it did; a call made with the hands changes no tool.        *)
C2_DurabilityStep ==
    [][MineStep =>
          IF call'.effective.cls = "ToolItem"
          THEN /\ call'.effective.durability > 0
               /\ selected[1] \in ToolSlots
               /\ Durability(selected[1]) = call'.effective.durability
               /\ Durability(selected[1])' =
                      IF call'.successful THEN Durability(selected[1])
                      ELSE Durability(selected[1]) - 1
               /\ \A i \in ToolSlots \ {selected[1]} : hot_bar'[i] = hot_bar[i]
          ELSE hot_bar' = hot_bar]_vars

(* The pickaxe failed to break a block and lost one point.                 *)
C2_Witness ==
    /\ call.op = "mine_block"
    /\ call.effective.cls = "ToolItem"
    /\ ~call.successful
    /\ selected # << >> /\ selected[1] \in ToolSlots
    /\ Durability(selected[1]) = call.effective.durability - 1

(* C3 as stated: a completed break costs 0.5 food while food > 0 and       *)
(* otherwise exactly 2.5 health; any other call costs nothing.             *)
C3_ExactStep ==
    [][MineStep =>
          IF call'.mined
          THEN IF food > 0
               THEN food' = food - MINE_FOOD_COST /\ health' = health
               ELSE food' = 0 /\ health' = health - MINE_HEALTH_COST
          ELSE food' = food /\ health' = health]_vars

Max(a, b) == IF a > b THEN a ELSE b

(* C3 amended: as C3, but health stops at 0: the break costs 2.5 health    *)
(* or what is left of it.                                                  *)
C3_ClampedStep ==
    [][MineStep =>
          IF call'.mined
          THEN IF food > 0
               THEN food' = food - MINE_FOOD_COST /\ health' = health
               ELSE food' = 0 /\ health' = Max(health - MINE_HEALTH_COST, 0)
          ELSE food' = food /\ health' = health]_vars

(* A break was completed with no food left and emptied the health.         *)
C3_Witness ==
    /\ call.op = "mine_block" /\ call.mined
    /\ food = 0 /\ health = 0

(* C4: no Block object is found mined twice, and a block found mined is    *)
(* gone from the world: no later click reaches it.                         *)
C4_MinedOnce ==
    /\ \A i, j \in 1 .. Len(mine_log) : i # j => mine_log[i] # mine_log[j]
    /\ \A c \in Cells : \A k \in 1 .. Len(blocks[c]) :
          /\ ~blocks[c][k].mined
          /\ \A i \in 1 .. Len(mine_log) : mine_log[i] # blocks[c][k].uid

(* A block was mined and a later click in range at the same cell found no  *)
(* block.                                                                  *)
C4_Witness ==
    /\ Len(mine_log) >= 1
    /\ call.op = "_left_click"
    /\ target_in_range
    /\ xy_to_grid(target_position[1], target_position[2]) = <<0, 0>>

ItemEntries(drops) == Cardinality({ k \in 1 .. Len(drops) : drops[k].category = "item" })

(* C5 as stated: a completed break adds one dropped-item body for every    *)
(* "item" entry of the drop list.                                          *)
C5_OneBodyPerItem ==
    [][(MineStep /\ call'.mined) =>
          Len(items') = Len(items) + ItemEntries(call'.drops)]_vars

-----------------------------------------------------------------------------
(* Properties of drop dispatch                                             *)

(* The cell that holds the Block object uid.                               *)
CellOf(uid) == CHOOSE c \in Cells : \E k \in 1 .. Len(blocks[c]) : blocks[c][k].uid = uid

BlockEntries(drops) == { k \in 1 .. Len(drops) : drops[k].category = "block" }

(* C6 as stated: every "block" drop of mine_block puts one new block in    *)
(* the mined block's former cell, and the pixel it is placed at is the     *)
(* pixel of the call, never the jittered pixel of an item drop.            *)
C6_AtCallPixel ==
    [][(MineStep /\ call'.mined) =>
          /\ \A k \in 1 .. Len(call'.placed) :
                /\ call'.placed[k] = target_position
                /\ xy_to_grid(call'.placed[k][1], call'.placed[k][2]) = CellOf(call'.uid)
          /\ Len(blocks'[CellOf(call'.uid)]) = Len(call'.placed)]_vars

(* C6 amended: every "block" drop of mine_block puts one new block in the  *)
(* mined block's former cell and in no other; after an item entry the      *)
(* pixel handed to World.add_block is that item's jittered pixel, which    *)
(* lies in the same cell.  No block entry is skipped unless the loop       *)
(* raised.                                                                 *)
C6_InFormerCell ==
    [][(MineStep /\ call'.mined) =>
          LET cell == CellOf(call'.uid)
              n == Len(call'.placed)
          IN  /\ \A k \in 1 .. n :
                    xy_to_grid(call'.placed[k][1], call'.placed[k][2]) = cell
              /\ Len(blocks'[cell]) = Len(blocks[cell]) - 1 + n
              /\ \A k \in 1 .. n :
                    blocks'[cell][Len(blocks[cell]) - 1 + k].uid = next_uid + k - 1
              /\ \A c \in Cells \ {cell} : blocks'[c] = blocks[c]
              /\ next_uid' = next_uid + n
              /\ raised' = "none" => n = Cardinality(BlockEntries(call'.drops))]_vars

(* A block entry came after an item entry and was placed through the       *)
(* item's jittered pixel, in the mined block's cell.                       *)
C6_Witness ==
    /\ call.op = "mine_block" /\ call.mined
    /\ Len(call.drops) = 2
    /\ call.drops[1].category = "item" /\ call.drops[2].category = "block"
    /\ Len(call.placed) = 1
    /\ call.placed[1] # target_position
    /\ Len(blocks[call.cell]) = 1

Unhandled(drops, known) == { k \in 1 .. Len(drops) : drops[k].category \notin known }

PlaceStep == clicks' = clicks + 1 /\ call'.op = "_right_click"

(* C7: a drop of a category the handler does not know is never passed      *)
(* over: mine_block (knowing "item" and "block") and _right_click (knowing *)
(* "block" and "effect") end with an exception whenever the list holds     *)
(* one, and with the "unknown drop category" KeyError whenever the loop    *)
(* of mine_block reaches it or it is the single drop of _right_click.      *)
C7_UnknownCategoryRaises ==
    [][/\ (MineStep /\ call'.mined) =>
             LET bad == Unhandled(call'.drops, {"item", "block"})
             IN  IF bad = {} THEN raised' # "KeyError: Unknown drop category"
                 ELSE /\ raised' # "none"
                      /\ (\A k \in 1 .. Len(call'.drops) :
                             (k \notin bad /\ \E b \in bad : k < b) =>
                                 \/ /\ call'.drops[k].category = "item"
                                    /\ create_item(call'.drops[k].types).ok
                                 \/ /\ call'.drops[k].category = "block"
                                    /\ create_block(call'.drops[k].types).ok)
                         => raised' = "KeyError: Unknown drop category"
       /\ PlaceStep =>
             LET bad == Unhandled(call'.drops, {"block", "effect"})
             IN  IF bad = {} THEN raised' # "KeyError: Unknown drop category"
                 ELSE /\ raised' # "none"
                      /\ Len(call'.drops) = 1 =>
                             raised' = "KeyError: Unknown drop category"]_vars

(* The same one-entry list of an unknown category made mine_block raise    *)
(* and then _right_click raise the KeyError.                               *)
C7_Witness ==
    /\ call.op = "_right_click"
    /\ Len(call.drops) = 1 /\ call.drops[1].category = "loot"
    /\ raised = "KeyError: Unknown drop category"
    /\ Len(mine_log) = 1

-----------------------------------------------------------------------------
(* Properties of crafting                                                  *)

Table == GridCrafter(crafting_window[1]).recipes

(* The number of cells in which the grids g and p differ.                  *)
DiffCells(g, p) ==
    Cardinality({ rc \in (1 .. Len(p)) \X (1 .. Len(p[1])) : g[rc[1]][rc[2]] # p[rc[1]][rc[2]] })

AllWood == << <<"wood", "wood">>, <<"wood", "wood">> >>

(* C8 as stated: a grid equal to a registered pattern gives that           *)
(* pattern's result, and a grid one cell away from a registered pattern    *)
(* gives no match.                                                         *)
C8_SingleDeviation ==
    crafted # << >> =>
        \A k \in 1 .. Len(Table) :
            /\ grid = Table[k].pattern => crafted[1] = << Table[k].result >>
            /\ DiffCells(grid, Table[k].pattern) = 1 => crafted[1] = << >>

(* C8 amended: a grid equal to a registered pattern gives that pattern's   *)
(* result (all wood on 2x2: one crafting table); a grid one cell away      *)
(* from a registered pattern gives no match unless it is itself the        *)
(* pattern of another recipe, whose result it then gives; with all wood    *)
(* but one cell emptied there is no match.                                 *)
C8_ExactMatch ==
    crafted # << >> =>
        /\ \A k \in 1 .. Len(Table) :
              /\ grid = Table[k].pattern => crafted[1] = << Table[k].result >>
              /\ (/\ DiffCells(grid, Table[k].pattern) = 1
                  /\ \A m \in 1 .. Len(Table) : grid # Table[m].pattern)
                 => crafted[1] = << >>
        /\ (crafting_window = <<"basic">> /\ grid = AllWood)
              => crafted[1] = << Stack(BlockItem("crafting_table"), 1) >>
        /\ (crafting_window = <<"basic">> /\ DiffCells(grid, AllWood) = 1
               /\ \E r, c \in 1 .. 2 : grid[r][c] = "")
              => crafted[1] = << >>

(* The 3x3 grid of the wooden shovel with its middle cell changed to wood  *)
(* is the wooden sword's pattern and gives a sword.                        *)
C8_Witness ==
    /\ crafted # << >> /\ crafted[1] # << >>
    /\ crafted[1][1].item.id = "wood_sword"
    /\ clicks = 1
    /\ crafting_window = <<"crafting_table">>

-----------------------------------------------------------------------------
(* Properties of the pickup                                                *)

RECURSIVE SumOver(_, _, _)
SumOver(g, keys, id) ==
    IF keys = {} THEN 0
    ELSE LET k == CHOOSE k \in keys : TRUE
         IN  (IF g[k] # << >> /\ g[k][1].item.id = id THEN g[k][1].quantity ELSE 0)
             + SumOver(g, keys \ {k}, id)

(* How many items of an id a grid holds.                                   *)
Total(g, id) == SumOver(g, DOMAIN g, id)

(* Whether a grid has a place for the item: a stack of its id that is not  *)
(* full, or an empty cell.                                                 *)
HasRoom(g, item) ==
    \E k \in DOMAIN g :
        \/ g[k] = << >>
        \/ /\ g[k][1].item.id = item.id
           /\ g[k][1].quantity < MAX_STACK

CollideStep == call'.op = "_handle_player_collide_item"

(* C9 as stated: when neither the hot bar nor the inventory has a place    *)
(* for the item, the dropped item stays, both containers are unchanged     *)
(* and the callback returns False.                                         *)
C9_FullReturnsFalse ==
    [][(/\ CollideStep
        /\ ~HasRoom(hot_bar, call'.effective)
        /\ ~HasRoom(inventory, call'.effective)) =>
          /\ items' = items
          /\ hot_bar' = hot_bar
          /\ inventory' = inventory
          /\ ret' = "False"]_vars

(* C10: the hot bar is tried first and the inventory only when the hot     *)
(* bar has no place; on a pickup exactly one container gains exactly one   *)
(* item of that id, the body leaves the world and the callback returns     *)
(* False; otherwise the body stays and no container gains anything: the    *)
(* item is never in a container and in the world, and never in neither.    *)
C10_PickupExclusive ==
    [][CollideStep =>
          LET item == call'.effective
              id == item.id
              bar_gain == Total(hot_bar', id) - Total(hot_bar, id)
              inv_gain == Total(inventory', id) - Total(inventory, id)
              left == Len(items) - Len(items')
          IN  /\ HasRoom(hot_bar, item) =>
                    bar_gain = 1 /\ inventory' = inventory /\ left = 1 /\ ret' = "False"
              /\ (~HasRoom(hot_bar, item) /\ HasRoom(inventory, item)) =>
                    inv_gain = 1 /\ hot_bar' = hot_bar /\ left = 1 /\ ret' = "False"
              /\ bar_gain + inv_gain = left
              /\ left \in {0, 1}
              /\ left = 1 => items' = remove_item(items, call'.uid)
              /\ left = 0 => items' = items
              /\ \A other \in {"dirt", "stone", "wood"} \ {id} :
                    /\ Total(hot_bar', other) = Total(hot_bar, other)
                    /\ Total(inventory', other) = Total(inventory, other)]_vars

(* The hot bar refused a stone and the inventory took it.                  *)
C10_Witness ==
    /\ call.op = "_handle_player_collide_item"
    /\ call.effective.id = "stone"
    /\ ret = "False"
    /\ Total(hot_bar, "stone") = 0
    /\ Total(inventory, "stone") = 1
    /\ Len(items) = 1

-----------------------------------------------------------------------------
(* Properties of the effect router                                         *)

(* The effect a placement step handed to run_effect.                       *)
EffectStep == PlaceStep /\ Len(call'.drops) = 1 /\ call'.drops[1].category = "effect"

Routed == call'.drops[1].effect

Known(e) == e.len = 2 /\ e.kind \in {"crafting", "food", "health"}

(* C11: run_effect raises the KeyError "No effect defined" for every       *)
(* effect that is not a 2-tuple of kind "crafting", "food" or "health",    *)
(* tuples of another length included, and then the player's food and       *)
(* health and the crafting window are unchanged; it raises nothing for a   *)
(* 2-tuple of one of the three kinds.                                      *)
C11_UndefinedEffectRaises ==
    [][EffectStep =>
          IF Known(Routed)
          THEN raised' = "none"
          ELSE /\ raised' = "KeyError: No effect defined"
               /\ food' = food
               /\ health' = health
               /\ crafting_window' = crafting_window]_vars

(* A 3-tuple of kind "food" was refused.                                   *)
C11_Witness ==
    /\ call.op = "_right_click"
    /\ Len(call.drops) = 1
    /\ call.drops[1].effect.len = 3
    /\ call.drops[1].effect.kind = "food"
    /\ raised = "KeyError: No effect defined"

StatStep == EffectStep /\ Known(Routed) /\ Routed.kind \in {"food", "health"}

(* C12 as stated: a "food" or "health" effect changes exactly one of the   *)
(* two stats: food when food is below its maximum, health otherwise.       *)
C12_ExactlyOneChanged ==
    [][StatStep =>
          IF food < MAX_FOOD
          THEN food' # food /\ health' = health
          ELSE food' = food /\ health' # health]_vars

Min(a, b) == IF a <= b THEN a ELSE b

(* C12: the declared kind is ignored.  When food is below its maximum the  *)
(* strength goes to food, which rises by it but not above the maximum,     *)
(* and health is unchanged; otherwise food is unchanged and health rises   *)
(* by the strength but not above its maximum.                              *)
C12_RoutedByFood ==
    [][StatStep =>
          IF food < MAX_FOOD
          THEN food' = Min(food + Routed.strength, MAX_FOOD) /\ health' = health
          ELSE food' = food /\ health' = Min(health + Routed.strength, MAX_HEALTH)]_vars

(* A "health" effect at food 20 raised the food and left the health.       *)
C12_Witness ==
    /\ call.op = "_right_click"
    /\ Len(call.drops) = 1
    /\ call.drops[1].effect = Effect(2, "health", "", APPLE_STRENGTH)
    /\ raised = "none"
    /\ food = 20 + APPLE_STRENGTH
    /\ health = 20
    /\ clicks = 1

-----------------------------------------------------------------------------
(* Properties of the factories                                             *)

(* The id tuples the factories document a result for.                      *)
RegisteredBlockIds == BlockIds \cup {<<"mayhem", "1">>}

RegisteredItemIds ==
    { <<id>> : id \in SingleItemIds \cup {"hands", "bow", "arrow", "apple", "stick",
                                           "swarming_bee"} }
    \cup { <<"pickaxe", m>> : m \in {"stone", "diamond", "wood"} }
    \cup { <<t, m>> : t \in {"axe", "shovel", "sword"}, m \in {"wood", "stone"} }

(* C13 as stated: create_block and create_item give a result for every     *)
(* registered id tuple and raise a KeyError for every other one (the       *)
(* empty tuple, an unhandled length, an unknown id, a pair without a       *)
(* branch), never another kind of error.                                   *)
C13_KeyErrorOtherwise ==
    [][(MineStep /\ call'.mined /\ Len(call'.drops) = 1) =>
          LET drop == call'.drops[1]
          IN  /\ drop.category = "block" =>
                    IF drop.types \in RegisteredBlockIds
                    THEN raised' = "none" /\ Len(call'.placed) = 1
                    ELSE raised' = "KeyError: No block defined"
              /\ drop.category = "item" =>
                    IF drop.types \in RegisteredItemIds
                    THEN raised' = "none" /\ Len(items') = Len(items) + 1
                    ELSE raised' = "KeyError: No item defined"]_vars

-----------------------------------------------------------------------------
(* Properties of the tick and the File menu                                *)

(* C14: restart and exit answered "no" change nothing: the world's         *)
(* things, the player object and its stats, the hot bar and its selection, *)
(* the inventory and the window are after the call what they were before.  *)
C14_DeclinedChangesNothing ==
    [][(call'.op \in {"restart", "exit"} /\ ~call'.successful) =>
          UNCHANGED <<blocks, items, mobs, player, food, health, hot_bar, selected,
                      inventory, destroyed, pending>>]_vars

(* A restart was declined with a dropped item in the world and a used      *)
(* inventory.                                                              *)
C14_Witness ==
    /\ call.op = "restart"
    /\ ~call.successful
    /\ Len(items) = 1
    /\ inventory # starting_inventory
    /\ hot_bar[0] = << >>

(* C18: a confirmed restart leaves the 10 starting stacks in the hot bar,  *)
(* the 2 starting stacks at (1, 5) and (0, 2) of an otherwise empty        *)
(* inventory, slot (0, 0) selected and a new player at full food and       *)
(* health, whatever the state before; so a second confirmed restart        *)
(* leaves the same grids and selection as the first.                       *)
C18_RestartRestores ==
    [][(call'.op \in {"restart", "step"} /\ call'.successful) =>
          /\ \A i \in Slots : hot_bar'[i] = << starting_hotbar[i + 1] >>
          /\ \A p \in InvSlots :
                inventory'[p] = CASE p = <<1, 5>> -> << Stack(BaseItem("dirt"), 10) >>
                                  [] p = <<0, 2>> -> << Stack(BaseItem("wood"), 10) >>
                                  [] OTHER -> << >>
          /\ selected' = <<0>>
          /\ player' > player
          /\ food' = MAX_FOOD
          /\ health' = MAX_HEALTH
          /\ items' = << >>]_vars

(* The second of two confirmed restarts in a row.                          *)
C18_Witness ==
    /\ call.op = "restart"
    /\ call.successful
    /\ player = 3
    /\ mobs = starting_mobs

(* C19: a tick that ends with the player dead asks for a restart, and      *)
(* only such a tick does; declined, it leaves the player dead, so the      *)
(* next tick asks again.  Every tick schedules one next tick: while the    *)
(* window lives exactly one call of step is pending.                       *)
C19_OneTickChain ==
    /\ [](~destroyed => pending = 1)
    /\ [][call'.op = "step" =>
             /\ asked' = is_dead(health)
             /\ (is_dead(health) /\ ~call'.successful) => is_dead(health')
             /\ pending' = pending]_vars

(* A tick found the player dead, asked, and was declined.                  *)
C19_Witness ==
    /\ call.op = "step"
    /\ asked
    /\ ~call.successful
    /\ is_dead(health)
    /\ pending = 1
    /\ mobs[1].steps >= 2

Multiple(n, k) == \E q \in 0 .. n : n = q * k

(* C16: a Sheep calls set_velocity on exactly the steps whose counter is   *)
(* a multiple of 100 and a Bee on the multiples of 20, and on every step   *)
(* the base Mob step runs.                                                 *)
C16_PeriodicPush ==
    [][call'.op = "step" =>
          \A k \in DOMAIN mobs :
              /\ mobs'[k].stepped
              /\ mobs'[k].steps = mobs[k].steps + 1
              /\ mobs[k].cls = "Sheep" => (mobs'[k].pushed <=> Multiple(mobs[k].steps, 100))
              /\ mobs[k].cls = "Bee" => (mobs'[k].pushed <=> Multiple(mobs[k].steps, 20))]_vars

(* The step at counter 200 pushed the sheep and the bee.                   *)
C16_Witness ==
    /\ call.op = "step"
    /\ mobs[1].cls = "Sheep" /\ mobs[1].steps = 201 /\ mobs[1].pushed /\ mobs[1].stepped
    /\ mobs[2].cls = "Bee" /\ mobs[2].pushed

-----------------------------------------------------------------------------
(* Properties of placing                                                   *)

(* C15: every occupied slot of the hot bar holds a stack of quantity > 0,  *)
(* and a placement that takes the last item of the selected stack empties  *)
(* the slot in the same call, whether the call then dispatches a drop,     *)
(* returns without one or raises.                                          *)
C15_NoEmptyStack ==
    /\ [](\A i \in Slots : hot_bar[i] # << >> => hot_bar[i][1].quantity > 0)
    /\ [][PlaceStep =>
             LET slot == selected[1]
             IN  IF hot_bar[slot][1].quantity = 1
                 THEN hot_bar'[slot] = << >>
                 ELSE /\ hot_bar'[slot] # << >>
                      /\ hot_bar'[slot][1].quantity = hot_bar[slot][1].quantity - 1]_vars

(* The one honey was placed, its slot emptied, and a dropped item picked   *)
(* up into the slot.                                                       *)
C15_Witness ==
    /\ call.op = "_handle_player_collide_item"
    /\ \E i \in Slots : /\ starting_hotbar[i + 1].item.id = "honey"
                        /\ hot_bar[i] # << >>
                        /\ hot_bar[i][1].item.id = "stone"
                        /\ hot_bar[i][1].quantity = 1
    /\ \E c \in Cells : blocks[c] # << >> /\ blocks[c][1].id = "honey"

-----------------------------------------------------------------------------
(* Properties of the place of a drop                                       *)

(* C17: the item drop of index i from a block centred at (x0, y0) lands    *)
(* at x = x0 - 16 + 5 + 11 * (i mod 3) + jx and                            *)
(* y = y0 - 16 + 5 + 11 * ((i div 3) mod 3) + jy for jitter draws that are *)
(* never negative, so within [x0 - 11, x0 + 13] (and so for y), which is   *)
(* strictly inside the 32-pixel cell of the mined block.                   *)
C17_DropInsideCell ==
    call.op = "place_drop" =>
        LET i == call.uid
            x0 == call.cell[1] * 32 + 16
            y0 == call.cell[2] * 32 + 16
            jx == call.placed[1][1]
            jy == call.placed[1][2]
        IN  /\ jx >= 0 /\ jy >= 0
            /\ call.x = x0 - 16 + 5 + 11 * (i % 3) + jx
            /\ call.y = y0 - 16 + 5 + 11 * ((i \div 3) % 3) + jy
            /\ x0 - 11 <= call.x /\ call.x <= x0 + 13
            /\ y0 - 11 <= call.y /\ call.y <= y0 + 13
            /\ x0 - 16 < call.x /\ call.x < x0 + 15
            /\ y0 - 16 < call.y /\ call.y < y0 + 15
            /\ xy_to_grid(call.x, call.y) = call.cell

(* The drop of index 10 (second column, first row again) at the largest    *)
(* jitter.                                                                 *)
C17_Witness ==
    /\ call.op = "place_drop"
    /\ call.uid = 10
    /\ call.placed = << <<2, 2>> >>
    /\ call.x = call.cell[1] * 32 + 16 + 2
    /\ call.y = call.cell[2] * 32 + 16 - 9

-----------------------------------------------------------------------------
(* Properties of the drops of the block classes                            *)

(* C20 as stated: every ("item", id) entry a block built by create_block   *)
(* returns from get_drops names an id create_item accepts, so a            *)
(* mine_block that completes the break with the correct item raises        *)
(* nothing while it dispatches the drops.                                  *)
C20_DropsAreItems ==
    [][(MineStep /\ call'.mined /\ call'.suitable) =>
          /\ \A k \in 1 .. Len(call'.drops) :
                call'.drops[k].category = "item" => create_item(call'.drops[k].types).ok
          /\ raised' = "none"]_vars

-----------------------------------------------------------------------------
(* C21: once the pointer has left the view (<Leave>), no left click mines  *)
(* a block before the next <Motion>, whatever _move and _jump key events   *)
(* come in between.                                                        *)
C21_NoMineAfterLeave ==
    [][left_view => ~MineStep]_vars

(* What the code does hold to: a left click mines only a block that lies   *)
(* under the last cursor position while _target_in_range is set.           *)
C21_MinesInRangeOnly ==
    [][MineStep => /\ target_in_range
                   /\ get_block(blocks, target_position[1], target_position[2]) # << >>]_vars

-----------------------------------------------------------------------------
(* The number of items a slot of the hot bar holds.                        *)
Quantity(bar, i) == IF bar[i] = << >> THEN 0 ELSE bar[i][1].quantity

(* C22: a right click at a position holding no thing, with a non-empty     *)
(* selected stack, takes exactly one item off that stack and changes no    *)
(* other slot, whatever place() returns and whether or not the dispatch    *)
(* raises afterwards; a right click on a thing leaves the hot bar as it    *)
(* is.                                                                     *)
C22_PlaceTakesOne ==
    [][/\ PlaceStep =>
            /\ selected # << >>
            /\ Quantity(hot_bar, selected[1]) >= 1
            /\ Quantity(hot_bar', selected[1]) = Quantity(hot_bar, selected[1]) - 1
            /\ hot_bar'[selected[1]] # << >> =>
                   hot_bar'[selected[1]][1].item = hot_bar[selected[1]][1].item
            /\ \A i \in Slots \ {selected[1]} : hot_bar'[i] = hot_bar[i]
       /\ call'.op = "use" => hot_bar' = hot_bar]_vars

(* The pickaxe has been placed, which returned no drops and emptied its    *)
(* slot, and the last right click, with dirt selected and the cursor on a  *)
(* free cell, was pressed over the crafting table: it raised for the full  *)
(* cell and the dirt is one less.                                          *)
C22_Witness ==
    /\ call.op = "_right_click"
    /\ raised = "NotImplementedError: cell is full"
    /\ selected = <<0>>
    /\ Quantity(hot_bar, 0) = 19
    /\ hot_bar[2] = << >>
    /\ Len(blocks[<<0, 0>>]) = 1

====
